---- MODULE Spec2Model ----
(***************************************************************************)
(* Model of the diagnosis engine of AutoCare AI (src/app_main.py):         *)
(*   - check_custom_rules, the rule evaluator over a sensor reading;       *)
(*   - load_model_assets / predict_failure, the inference adapter;         *)
(*   - the fusion of rule alerts and prediction on the Detailed Analysis   *)
(*     page.                                                               *)
(*                                                                         *)
(* Python values are modelled as follows.  A dict is a function whose      *)
(* DOMAIN is the set of keys it holds.  A dict value is a cell             *)
(* [kind, v]: kind "num" is a number v, kind "obj" is a value that cannot  *)
(* be ordered against a number (a str, a dict, None).  An expression       *)
(* evaluates to "true", "false" or to the name of the exception it raises. *)
(***************************************************************************)
EXTENDS Integers, Sequences, FiniteSets, TLC

VARIABLES
    pc,                 \* position of the script / of the function under test
    page,               \* st.session_state["page"]
    car_model,          \* st.session_state["car_model"], None while not set
    cache,              \* the st.cache_resource entry of load_model_assets
    files,              \* artifact files present on disk
    model,              \* module globals bound at line 46
    scaler,
    encoder,
    training_columns,
    data,               \* the reading (st.session_state["diagnosis_input"])
    rule_alerts,        \* list returned by check_custom_rules
    raised,             \* exception that left the call, "none" if it returned
    predicted_failure,  \* predict_failure's results
    confidence,
    prediction_proba,
    invoked,            \* collaborators predict_failure has called
    scaler_input,       \* the frame predict_failure hands to scaler.transform
    all_alerts,         \* the fused alert set
    pkl,                \* what each artifact file on disk holds
    \* st.session_state
    users,              \* session_state['users']
    current_user,       \* session_state['current_user'], PyNone when absent
    page_redirect,      \* session_state['page_redirect'], PyNone when absent
    diagnosis_by,       \* who was signed in when diagnosis_input was stored
    signup,             \* the sign-up form submitted in this run, its outcome
    \* the training script (names that clash with the serving script's carry t_)
    csv,                \* upgraded_car_data.csv
    run_id,             \* number of the current run of the training script
    tpc,                \* the step the training script is at
    trace,              \* the steps the current run has executed
    saved,              \* files the save loop of the current run has written
    df,                 \* rows of the data frame
    df_columns,         \* its column labels, in order
    le,                 \* classes_ of the label encoder
    y_encoded,          \* the label codes, row by row
    t_training_columns, \* training_columns
    df_balanced,        \* the balanced frame: columns of X_final and rows
    t_scaler,           \* the StandardScaler
    split,              \* sizes of the train and the test partition
    final_model,        \* the XGBClassifier
    t_raised,           \* exception that ended the run, "none" otherwise
    rng42,              \* what the generator seeded with 42 draws
    runs_log            \* what each run so far has encoded and balanced

servingVars == << pc, page, car_model, cache, model, scaler, encoder,
                  training_columns, data, rule_alerts, raised,
                  predicted_failure, confidence, prediction_proba, invoked,
                  scaler_input, all_alerts >>

trainVars == << csv, run_id, tpc, trace, saved, df, df_columns, le, y_encoded,
                t_training_columns, df_balanced, t_scaler, split, final_model,
                t_raised, rng42, runs_log >>

sessionVars == << users, current_user, page_redirect, diagnosis_by, signup >>

vars == << servingVars, files, pkl, trainVars, sessionVars >>

(***************************************************************************)
(* Bounds                                                                  *)
(***************************************************************************)
\* A reading of the rule evaluator differs from a uniform baseline in at
\* most MaxDev keys.
MaxDev == 2

\* The dataset has at most MaxRows rows.
MaxRows == 6

\* The training script is run at most MaxRuns times.
MaxRuns == 2

\* A user adds at most MaxCars cars.
MaxCars == 1

(***************************************************************************)
(* Python values                                                           *)
(***************************************************************************)
PyNone == "PyNone"

Num(n) == [kind |-> "num", v |-> n]
Obj == [kind |-> "obj", v |-> 0]
KeyErrorCell == [kind |-> "KeyError", v |-> 0]
TypeErrorCell == [kind |-> "TypeError", v |-> 0]

IsExc(r) == r \in {"KeyError", "TypeError"}

\* data[k]
Subscript(d, k) == IF k \in DOMAIN d THEN d[k] ELSE KeyErrorCell

\* data.get(k, default)
DictGet(d, k, default) == IF k \in DOMAIN d THEN d[k] ELSE Num(default)

\* cell > t
Gt(cell, t) ==
    IF cell.kind = "KeyError" THEN "KeyError"
    ELSE IF cell.kind # "num" THEN "TypeError"
    ELSE IF cell.v > t THEN "true" ELSE "false"

\* cell < t
Lt(cell, t) ==
    IF cell.kind = "KeyError" THEN "KeyError"
    ELSE IF cell.kind # "num" THEN "TypeError"
    ELSE IF cell.v < t THEN "true" ELSE "false"

\* a or b, where b is evaluated only if a is false
PyOr(a, b) == IF a = "true" \/ IsExc(a) THEN a ELSE b

Range(s) == { s[i] : i \in DOMAIN s }

(***************************************************************************)
(* check_custom_rules                                                      *)
(***************************************************************************)
RequiredKeys ==
    << "odometer_km", "engine_temp_c", "battery_voltage_v",
       "oil_pressure_kpa", "brake_pad_wear_mm_front",
       "suspension_health_pct", "tire_pressure_psi_fl", "coolant_level_pct",
       "brake_fluid_level_pct", "transmission_fluid_temp_c" >>

RearKey == "brake_pad_wear_mm_rear"

SensorKeys == Range(RequiredKeys) \cup {RearKey}

AlertLabels ==
    << "Maintenance Due / High Mileage Warning", "Engine Overheating",
       "Battery Failure", "Low Oil Pressure Warning",
       "Brake Pads Critically Worn", "Suspension Failure Risk",
       "Low Tire Pressure", "Coolant Critically Low",
       "Brake Fluid Critically Low", "Transmission Overheating" >>

NumRules == Len(AlertLabels)

OdometerLimit == 300000
EngineTempLimit == 110
BatteryLimit == 12
OilPressureLimit == 150
BrakeWearLimit == 3
SuspensionLimit == 40
TirePressureLimit == 20
CoolantLimit == 30
BrakeFluidLimit == 20
TransmissionTempLimit == 110

OdometerRule(d) == Gt(Subscript(d, "odometer_km"), OdometerLimit)

\* engine_temp_c >= 110 in place of > 110
EngineTempRuleNonStrict(d) ==
    PyOr(Gt(Subscript(d, "engine_temp_c"), EngineTempLimit),
         IF Subscript(d, "engine_temp_c") = Num(EngineTempLimit)
         THEN "true" ELSE "false")

EngineTempRule(d) == Gt(Subscript(d, "engine_temp_c"), EngineTempLimit)

BatteryRule(d) == Lt(Subscript(d, "battery_voltage_v"), BatteryLimit)

OilPressureRule(d) == Lt(Subscript(d, "oil_pressure_kpa"), OilPressureLimit)

BrakeRule(d) ==
    PyOr(Lt(Subscript(d, "brake_pad_wear_mm_front"), BrakeWearLimit),
         Lt(DictGet(d, RearKey, BrakeWearLimit), BrakeWearLimit))

SuspensionRule(d) == Lt(Subscript(d, "suspension_health_pct"), SuspensionLimit)

TirePressureRule(d) == Lt(Subscript(d, "tire_pressure_psi_fl"), TirePressureLimit)

CoolantRule(d) == Lt(Subscript(d, "coolant_level_pct"), CoolantLimit)

BrakeFluidRule(d) == Lt(Subscript(d, "brake_fluid_level_pct"), BrakeFluidLimit)

TransmissionRule(d) ==
    Gt(Subscript(d, "transmission_fluid_temp_c"), TransmissionTempLimit)

\* the condition of the i-th if statement of the try block
RuleCond(i, d) ==
    CASE i = 1 -> OdometerRule(d)
      [] i = 2 -> EngineTempRule(d)
      [] i = 3 -> BatteryRule(d)
      [] i = 4 -> OilPressureRule(d)
      [] i = 5 -> BrakeRule(d)
      [] i = 6 -> SuspensionRule(d)
      [] i = 7 -> TirePressureRule(d)
      [] i = 8 -> CoolantRule(d)
      [] i = 9 -> BrakeFluidRule(d)
      [] i = 10 -> TransmissionRule(d)

\* a slip that appends the brake label once per worn axle
AppendAlertPerAxle(alerts, i) ==
    IF i = 5 THEN Append(Append(alerts, AlertLabels[i]), AlertLabels[i])
    ELSE Append(alerts, AlertLabels[i])

\* alerts.append(label) of the i-th if statement
AppendAlert(alerts, i) == Append(alerts, AlertLabels[i])

\* a variant that guards every if statement by its own try/except
RECURSIVE TryBlockPerRule(_, _, _)
TryBlockPerRule(d, i, alerts) ==
    IF i > NumRules THEN [alerts |-> alerts, exc |-> "none"]
    ELSE LET r == RuleCond(i, d) IN
         TryBlockPerRule(d, i + 1,
                         IF r = "true" THEN AppendAlert(alerts, i) ELSE alerts)

\* The try block from its i-th if statement on: the statements run in order,
\* and the first exception leaves the block with the alerts appended so far.
RECURSIVE TryBlock(_, _, _)
TryBlock(d, i, alerts) ==
    IF i > NumRules THEN [alerts |-> alerts, exc |-> "none"]
    ELSE LET r == RuleCond(i, d) IN
         IF IsExc(r) THEN [alerts |-> alerts, exc |-> r]
         ELSE TryBlock(d, i + 1,
                       IF r = "true" THEN AppendAlert(alerts, i) ELSE alerts)

\* a handler that names KeyError only
ExceptKeyErrorOnly(exc) == exc = "KeyError"

\* except Exception: pass
ExceptClause(exc) == TRUE

\* The result of the call: the list returned, or the exception that leaves it.
check_custom_rules(d) ==
    LET run == TryBlock(d, 1, << >>) IN
    IF run.exc = "none" \/ ExceptClause(run.exc)
    THEN [ret |-> run.alerts, raised |-> "none"]
    ELSE [ret |-> << >>, raised |-> run.exc]

(***************************************************************************)
(* load_model_assets, predict_failure                                      *)
(***************************************************************************)
ArtifactFiles == {"model.pkl", "scaler.pkl", "encoder.pkl", "training_columns.pkl"}

\* the column list written by the training script
TrainedColumns ==
    << "odometer_km", "engine_temp_c", "battery_voltage_v",
       "oil_pressure_kpa", "brake_pad_wear_mm_front",
       "brake_pad_wear_mm_rear", "suspension_health_pct",
       "tire_pressure_psi_fl", "coolant_level_pct", "brake_fluid_level_pct",
       "transmission_fluid_temp_c", "temp_pressure_ratio",
       "total_brake_wear" >>

\* A list global: Python None, or a list.
NoColumns == [isNone |-> TRUE, list |-> << >>]
Columns(l) == [isNone |-> FALSE, list |-> l]

\* What an artifact file holds: the run that wrote it, the column sequence
\* its object was fitted on (or, for training_columns.pkl, is), and the
\* classes of its encoder.
Content(by, cols, classes) ==
    [run |-> by, columns |-> cols, classes |-> classes]

NoContent == Content(0 - 1, << >>, << >>)

AllNone ==
    [model |-> PyNone, scaler |-> PyNone, encoder |-> PyNone,
     columns |-> NoColumns, raised |-> "none",
     src |-> [f \in ArtifactFiles |-> NoContent]]

\* a version without the except clause: the error leaves the function
load_model_assets_uncaught(fs) ==
    IF ArtifactFiles \subseteq fs
    THEN [model |-> "XGBClassifier", scaler |-> "StandardScaler",
          encoder |-> "LabelEncoder",
          columns |-> Columns(pkl["training_columns.pkl"].columns),
          raised |-> "none", src |-> pkl]
    ELSE [AllNone EXCEPT !.raised = "FileNotFoundError"]

\* The four files are opened in turn; the first absent one raises
\* FileNotFoundError, which the except clause turns into four Nones.
\* src records what the four objects were unpickled from.
load_model_assets(fs) ==
    IF ArtifactFiles \subseteq fs
    THEN [model |-> "XGBClassifier", scaler |-> "StandardScaler",
          encoder |-> "LabelEncoder",
          columns |-> Columns(pkl["training_columns.pkl"].columns),
          raised |-> "none", src |-> pkl]
    ELSE AllNone

\* truth value of an object global: None and the empty string are false, an
\* estimator or a non-empty string is true
Truthy(x) == x \notin {PyNone, ""}

\* truth value of a list global: None and the empty list are false
ListTruthy(c) == ~c.isNone /\ c.list # << >>

\* a guard that looks at the model only
ModelLoaded == Truthy(model)

\* all([model, scaler, encoder, training_columns])
AssetsLoaded ==
    /\ Truthy(model)
    /\ Truthy(scaler)
    /\ Truthy(encoder)
    /\ ListTruthy(training_columns)

\* labels the encoder can decode and confidences (max probability * 100)
\* the classifier can yield
EncoderClasses ==
    {"None", "Normal", "none", "NORMAL", "Engine Overheating",
     "Transmission Failure"}

Confidences == {25, 49, 50, 51, 100}

ModelOutputs == [label : EncoderClasses, conf : Confidences]

\* the classifier is consulted only when the four artifacts are loaded
Answers ==
    IF model = "XGBClassifier" /\ scaler # PyNone /\ encoder # PyNone
    THEN ModelOutputs ELSE {[label |-> PyNone, conf |-> 0]}

\* A one-row DataFrame: the column labels in order and the row's cells.
Frame(cols, row) == [columns |-> cols, row |-> row]

NoFrame == Frame(<< >>, << >>)

\* the early return of line 193
ModelNotLoaded ==
    [label |-> "Model not loaded", confidence |-> 0, proba |-> PyNone,
     invoked |-> {}, scaler_input |-> NoFrame, raised |-> "none"]

\* a raises the exception a cell stands for
IsExcCell(c) == IsExc(c.kind)

\* a / (b + 1e-6), in thousandths.  The readings hold whole numbers and a
\* positive oil pressure, for which the 1e-6 does not change the thousandths.
PyDiv(a, b) ==
    IF IsExcCell(a) THEN a
    ELSE IF IsExcCell(b) THEN b
    ELSE IF a.kind # "num" \/ b.kind # "num" THEN TypeErrorCell
    ELSE Num((a.v * 1000) \div b.v)

\* a + b
PyAdd(a, b) ==
    IF IsExcCell(a) THEN a
    ELSE IF IsExcCell(b) THEN b
    ELSE IF a.kind # "num" \/ b.kind # "num" THEN TypeErrorCell
    ELSE Num(a.v + b.v)

\* the right-hand side of line 199
TempPressureRatio(d) ==
    PyDiv(Subscript(d, "engine_temp_c"), Subscript(d, "oil_pressure_kpa"))

\* the right-hand side of line 203
TotalBrakeWear(d) ==
    PyAdd(Subscript(d, "brake_pad_wear_mm_front"),
          Subscript(d, "brake_pad_wear_mm_rear"))

\* df[col] = value: the column is replaced, or added if it is new
SetColumn(d, col, cell) ==
    [k \in DOMAIN d \cup {col} |-> IF k = col THEN cell ELSE d[k]]

\* a version with both assignments in one try block: a failure of either
\* sets both derived features to 0.0
EngineerOneTry(d) ==
    LET r == TempPressureRatio(d)
        w == TotalBrakeWear(d)
        bad == IsExcCell(r) \/ IsExcCell(w)
    IN SetColumn(SetColumn(d, "temp_pressure_ratio", IF bad THEN Num(0) ELSE r),
                 "total_brake_wear", IF bad THEN Num(0) ELSE w)

\* lines 198-205: each derived feature in its own try/except, 0.0 on failure
Engineer(d) ==
    LET r == TempPressureRatio(d)
        w == TotalBrakeWear(d)
    IN SetColumn(SetColumn(d, "temp_pressure_ratio",
                           IF IsExcCell(r) THEN Num(0) ELSE r),
                 "total_brake_wear", IF IsExcCell(w) THEN Num(0) ELSE w)

\* a selection of the training columns the frame has, without filling
ReindexNoFill(d, cols) ==
    LET present == SelectSeq(cols, LAMBDA c : c \in DOMAIN d)
    IN Frame(present, [i \in 1..Len(present) |-> d[present[i]]])

\* input_df.reindex(columns=training_columns, fill_value=0)
Reindex(d, cols) ==
    Frame(cols, [i \in 1..Len(cols) |->
                    IF cols[i] \in DOMAIN d THEN d[cols[i]] ELSE Num(0)])

\* scaler.transform raises ValueError on a cell it cannot convert to float
ScalerRejects(frame) ==
    \E i \in 1..Len(frame.row) : frame.row[i].kind # "num"

\* scaler.transform and model.predict raise ValueError on a frame that has
\* not as many columns as the frame the unpickled object was fitted on
ShapeMismatch(frame, filename) ==
    /\ cache.set
    /\ Len(frame.columns) # Len(cache.value.src[filename].columns)

\* out is what the classifier answers for the scaled input
predict_failure(input_data, out) ==
    IF ~AssetsLoaded THEN ModelNotLoaded
    ELSE LET input_df == Reindex(Engineer(input_data), training_columns.list)
         IN IF ScalerRejects(input_df) \/ ShapeMismatch(input_df, "scaler.pkl")
            THEN [label |-> PyNone, confidence |-> 0, proba |-> PyNone,
                  invoked |-> {"scaler"}, scaler_input |-> input_df,
                  raised |-> "ValueError"]
            ELSE IF ShapeMismatch(input_df, "model.pkl")
            THEN [label |-> PyNone, confidence |-> 0, proba |-> PyNone,
                  invoked |-> {"scaler", "model"}, scaler_input |-> input_df,
                  raised |-> "ValueError"]
            ELSE [label |-> out.label, confidence |-> out.conf,
                  proba |-> "proba",
                  invoked |-> {"scaler", "model", "encoder"},
                  scaler_input |-> input_df, raised |-> "none"]

(***************************************************************************)
(* Fusion (Detailed Analysis page)                                         *)
(***************************************************************************)
ConfidenceThreshold == 50

\* a fusion that ignores the confidence
fuse_any_confidence(alerts, label, conf) ==
    IF label \notin {"None", "Normal"}
    THEN Range(alerts) \cup {label} ELSE Range(alerts)

\* a fusion that knows the sentinel "None" only
fuse_none_only(alerts, label, conf) ==
    IF label \notin {"None"} /\ conf >= ConfidenceThreshold
    THEN Range(alerts) \cup {label} ELSE Range(alerts)

\* a fusion with confidence > 50
fuse_strict(alerts, label, conf) ==
    IF label \notin {"None", "Normal"} /\ conf > ConfidenceThreshold
    THEN Range(alerts) \cup {label} ELSE Range(alerts)

\* a fusion in which a confident prediction replaces the rule alerts
fuse_prediction_wins(alerts, label, conf) ==
    IF label \notin {"None", "Normal"} /\ conf >= ConfidenceThreshold
    THEN {label} ELSE Range(alerts)

\* all_alerts = set(rule_alerts); add the prediction if it is a failure
\* label and confidence >= 50
fuse(alerts, label, conf) ==
    IF label \notin {"None", "Normal"} /\ conf >= ConfidenceThreshold
    THEN Range(alerts) \cup {label} ELSE Range(alerts)

(***************************************************************************)
(* Readings                                                                *)
(***************************************************************************)
Limit(k) ==
    CASE k = "odometer_km" -> OdometerLimit
      [] k = "engine_temp_c" -> EngineTempLimit
      [] k = "battery_voltage_v" -> BatteryLimit
      [] k = "oil_pressure_kpa" -> OilPressureLimit
      [] k = "brake_pad_wear_mm_front" -> BrakeWearLimit
      [] k = "brake_pad_wear_mm_rear" -> BrakeWearLimit
      [] k = "suspension_health_pct" -> SuspensionLimit
      [] k = "tire_pressure_psi_fl" -> TirePressureLimit
      [] k = "coolant_level_pct" -> CoolantLimit
      [] k = "brake_fluid_level_pct" -> BrakeFluidLimit
      [] k = "transmission_fluid_temp_c" -> TransmissionTempLimit

\* keys whose rule fires above the limit
HighSide == {"odometer_km", "engine_temp_c", "transmission_fluid_temp_c"}

\* The value of key k next to its limit: on the side that fires the rule
\* ("fire"), on the limit ("edge"), or on the other side ("safe").
Sample(k, pos) ==
    CASE pos = "edge" -> Num(Limit(k))
      [] pos = "fire" -> Num(IF k \in HighSide THEN Limit(k) + 1 ELSE Limit(k) - 1)
      [] pos = "safe" -> Num(IF k \in HighSide THEN Limit(k) - 1 ELSE Limit(k) + 1)
      [] pos = "obj" -> Obj

Positions == {"fire", "edge", "safe"}

\* The reading that holds every sensor key at position base, except that
\* the keys of ov are absent ("absent") or hold what ov says.
Reading(base, ov) ==
    [k \in SensorKeys \ {j \in DOMAIN ov : ov[j] = "absent"} |->
        IF k \in DOMAIN ov THEN Sample(k, ov[k]) ELSE Sample(k, base)]

\* the sets of at most MaxDev keys that deviate from the baseline
Deviations == {T \in SUBSET SensorKeys : Cardinality(T) <= MaxDev}

\* The reading the Dashboard stores when Run Diagnosis is clicked: five
\* widget values, the rear wear copied from the front, the rest fixed.
DiagnosisInput(odo, temp, volt, oil, wear) ==
    [k \in SensorKeys \cup {"car", "fuel_level_pct"} |->
        CASE k = "car" -> Obj
          [] k = "odometer_km" -> odo
          [] k = "engine_temp_c" -> temp
          [] k = "battery_voltage_v" -> volt
          [] k = "oil_pressure_kpa" -> oil
          [] k = "brake_pad_wear_mm_front" -> wear
          [] k = "brake_pad_wear_mm_rear" -> wear
          [] k = "suspension_health_pct" -> Num(85)
          [] k = "coolant_level_pct" -> Num(95)
          [] k = "brake_fluid_level_pct" -> Num(95)
          [] k = "fuel_level_pct" -> Num(70)
          [] k = "transmission_fluid_temp_c" -> Num(85)
          [] k = "tire_pressure_psi_fl" -> Num(32)]

NoReading == [k \in {} |-> Obj]

(***************************************************************************)
(* The users store and the session, lines 143-156                          *)
(***************************************************************************)
\* hashlib.sha256(pw.encode()).hexdigest(): one digest per password
hash_password(pw) == << "sha256", pw >>

NoUsers == [u \in {} |-> PyNone]

\* d[k] = v on a dict
SetItem(d, k, v) == [x \in DOMAIN d \cup {k} |-> IF x = k THEN v ELSE d[x]]

\* a create_user without the membership test
create_user_overwrite(store, username, pw, full, email) ==
    [ok |-> TRUE, msg |-> "User created",
     users |-> SetItem(store, username,
                       [pw_hash |-> hash_password(pw), full_name |-> full,
                        email |-> email, cars |-> << >>])]

\* lines 148-152; users is the store after the call
create_user(store, username, pw, full, email) ==
    IF username \in DOMAIN store
    THEN [ok |-> FALSE, msg |-> "Username exists", users |-> store]
    ELSE [ok |-> TRUE, msg |-> "User created",
          users |-> SetItem(store, username,
                            [pw_hash |-> hash_password(pw), full_name |-> full,
                             email |-> email, cars |-> << >>])]

\* line 153
authenticate(username, pw) ==
    /\ username \in DOMAIN users
    /\ users[username].pw_hash = hash_password(pw)

\* no sign-up form was submitted in this run
NoSignup == [username |-> "", password |-> "", called |-> FALSE, msg |-> ""]

\* a session in which nobody has signed up
NoSession ==
    /\ users = NoUsers
    /\ current_user = PyNone
    /\ page_redirect = PyNone
    /\ diagnosis_by = PyNone
    /\ signup = NoSignup

\* a car as the add-car form stores it
Car(make, car) == [make |-> make, model |-> car]

\* a session in which ann has signed up, added a car and logged in
SignedIn ==
    /\ users = SetItem(NoUsers, "ann",
                       [pw_hash |-> hash_password("pw"), full_name |-> "Ann",
                        email |-> "ann@x.io", mobile |-> "+919876543210",
                        cars |-> << Car("Toyota", "Corolla") >>])
    /\ current_user = "ann"
    /\ page_redirect = PyNone
    /\ diagnosis_by = PyNone
    /\ signup = NoSignup

(***************************************************************************)
(* The serving script                                                      *)
(***************************************************************************)
Locals ==
    /\ rule_alerts = << >>
    /\ raised = "none"
    /\ predicted_failure = PyNone
    /\ confidence = 0
    /\ prediction_proba = PyNone
    /\ invoked = {}
    /\ scaler_input = NoFrame
    /\ all_alerts = {}

\* a script run starts with fresh locals
FreshLocals ==
    /\ rule_alerts' = << >>
    /\ raised' = "none"
    /\ predicted_failure' = PyNone
    /\ confidence' = 0
    /\ prediction_proba' = PyNone
    /\ invoked' = {}
    /\ scaler_input' = NoFrame
    /\ all_alerts' = {}

locals == << rule_alerts, raised, predicted_failure, confidence,
             prediction_proba, invoked, scaler_input, all_alerts >>

globals == << model, scaler, encoder, training_columns >>

NoCache == [set |-> FALSE, value |-> AllNone]

\* pages of the if/elif chain of lines 516-720
Pages == {"Profile", "Dashboard", "Detailed Analysis"}

\* what the Model text input of the add-car form can return
CarModelInputs == {"", "Corolla"}

\* the artifact files of a training run made before the model starts
ShippedPkl ==
    [f \in ArtifactFiles |->
        Content(0, TrainedColumns, << "Brake Failure", "None", "Overheating" >>)]

\* no training script is running
TrainIdle ==
    /\ csv = [present |-> FALSE, columns |-> << >>, rows |-> << >>]
    /\ run_id = 0
    /\ tpc = "idle"
    /\ trace = << >>
    /\ saved = {}
    /\ df = << >>
    /\ df_columns = << >>
    /\ le = << >>
    /\ y_encoded = << >>
    /\ t_training_columns = << >>
    /\ df_balanced = [columns |-> << >>, rows |-> << >>]
    /\ t_scaler = [fitted |-> FALSE, columns |-> << >>, rows |-> << >>]
    /\ split = [n_train |-> 0, n_test |-> 0]
    /\ final_model = [fitted |-> FALSE, columns |-> << >>, num_class |-> 0]
    /\ t_raised = "none"
    /\ rng42 = [drawn |-> FALSE, picks |-> << >>]
    /\ runs_log = << >>

Init ==
    /\ pc = "start"
    /\ page = "Dashboard"
    /\ car_model = PyNone
    /\ cache = NoCache
    /\ files \in SUBSET ArtifactFiles
    /\ pkl = ShippedPkl
    /\ TrainIdle
    /\ SignedIn
    /\ model = PyNone
    /\ scaler = PyNone
    /\ encoder = PyNone
    /\ training_columns = NoColumns
    /\ data = NoReading
    /\ Locals

\* @st.cache_resource: the function body runs on the first call only
CachedAssets(fs) == IF cache.set THEN cache.value ELSE load_model_assets(fs)

\* a script that binds the four names on its first run only and keeps
\* whatever they are bound to afterwards
KeptFromLastRun(a) ==
    IF cache.set
    THEN [a EXCEPT !.model = model, !.scaler = scaler, !.encoder = encoder,
                   !.columns = training_columns]
    ELSE a

\* what line 46 binds model, scaler, encoder, training_columns to
BoundAtLine46(a) == a

\* The top of every script run, line 46:
\* model, scaler, encoder, training_columns = load_model_assets()
LoadModelAssets ==
    /\ pc = "start"
    /\ LET a == BoundAtLine46(CachedAssets(files)) IN
        /\ model' = a.model
        /\ scaler' = a.scaler
        /\ encoder' = a.encoder
        /\ training_columns' = a.columns
        /\ raised' = a.raised
        /\ cache' = IF CachedAssets(files).raised = "none"
                    THEN [set |-> TRUE, value |-> CachedAssets(files)]
                    ELSE cache
        /\ pc' = IF a.raised = "none" THEN page ELSE "crashed"
    /\ UNCHANGED << page, car_model, files, data, rule_alerts,
                    predicted_failure, confidence, prediction_proba, invoked,
                    scaler_input, all_alerts, pkl, trainVars,
                    sessionVars >>

\* Profile page: the add-car form binds the name model to its text input
ProfilePage ==
    /\ pc = "Profile"
    /\ current_user # PyNone
    /\ car_model' = IF car_model = PyNone THEN "" ELSE car_model
    /\ \E text \in CarModelInputs : model' = text
    /\ pc' = "profile_shown"
    /\ UNCHANGED << page, cache, files, scaler, encoder, training_columns,
                    data, locals, pkl, trainVars,
                    sessionVars >>

\* Dashboard of a signed-in user with a car (lines 623, 651): the Run
\* Diagnosis button, the five widgets set to positions of P
RunDiagnosisFrom(P) ==
    /\ pc = "Dashboard"
    /\ current_user # PyNone
    /\ users[current_user].cars # << >>
    /\ \E odo, temp, volt, oil, wear \in P :
         data' = DiagnosisInput(Sample("odometer_km", odo),
                                Sample("engine_temp_c", temp),
                                Sample("battery_voltage_v", volt),
                                Sample("oil_pressure_kpa", oil),
                                Sample("brake_pad_wear_mm_front", wear))
    /\ diagnosis_by' = current_user
    /\ page' = "Detailed Analysis"
    /\ pc' = "start"
    /\ UNCHANGED << car_model, cache, files, globals, locals, pkl, trainVars,
                    users, current_user, page_redirect, signup >>

RunDiagnosis == RunDiagnosisFrom(Positions)

\* Detailed Analysis page: rules, prediction, fusion
DetailedAnalysis ==
    /\ pc = "Detailed Analysis"
    /\ data # NoReading
    /\ \E out \in Answers :
         LET r == check_custom_rules(data)
             p == predict_failure(data, out)
         IN IF r.raised # "none"
            THEN /\ raised' = r.raised
                 /\ pc' = "crashed"
                 /\ UNCHANGED << rule_alerts, predicted_failure, confidence,
                                 prediction_proba, invoked, scaler_input,
                                 all_alerts >>
            ELSE IF p.raised # "none"
            THEN /\ rule_alerts' = r.ret
                 /\ raised' = p.raised
                 /\ invoked' = p.invoked
                 /\ scaler_input' = p.scaler_input
                 /\ pc' = "crashed"
                 /\ UNCHANGED << predicted_failure, confidence,
                                 prediction_proba, all_alerts >>
            ELSE /\ rule_alerts' = r.ret
                 /\ raised' = "none"
                 /\ predicted_failure' = p.label
                 /\ confidence' = p.confidence
                 /\ prediction_proba' = p.proba
                 /\ invoked' = p.invoked
                 /\ scaler_input' = p.scaler_input
                 /\ all_alerts' = fuse(r.ret, p.label, p.confidence)
                 /\ pc' = "shown"
    /\ UNCHANGED << page, car_model, cache, files, globals, data, pkl,
                    trainVars,
                    sessionVars >>

\* Detailed Analysis page without a stored diagnosis: the warning of line 722
DetailedAnalysisEmpty ==
    /\ pc = "Detailed Analysis"
    /\ data = NoReading
    /\ pc' = "warned"
    /\ UNCHANGED << page, car_model, cache, files, globals, data, locals,
                    pkl, trainVars,
                    sessionVars >>

\* Back to Dashboard button of line 940, then st.rerun()
BackToDashboard ==
    /\ pc = "shown"
    /\ page' = "Dashboard"
    /\ pc' = "start"
    /\ FreshLocals
    /\ UNCHANGED << car_model, cache, files, globals, data, pkl, trainVars,
                    sessionVars >>

\* what a script run can end on with the page drawn
Rendered ==
    {"Dashboard", "profile_shown", "shown", "warned", "login_first", "Home",
     "Live Fleet Monitoring", "Sign Up", "Log In"}

\* sidebar selectbox (lines 241-250): another page of P is selected,
\* st.rerun()
NavigateAmong(P) ==
    /\ pc \in Rendered
    /\ \E selected_page \in P \ {page} : page' = selected_page
    /\ pc' = "start"
    /\ FreshLocals
    /\ signup' = NoSignup
    /\ UNCHANGED << car_model, cache, files, globals, data, pkl, trainVars,
                    users, current_user, page_redirect, diagnosis_by >>

Navigate == NavigateAmong(Pages)

Next ==
    \/ LoadModelAssets
    \/ ProfilePage
    \/ RunDiagnosis
    \/ DetailedAnalysis
    \/ DetailedAnalysisEmpty
    \/ BackToDashboard
    \/ Navigate

Spec == Init /\ [][Next]_vars

(***************************************************************************)
(* The session: sign-up, log-in, log-out and the pages behind them         *)
(***************************************************************************)

\* available_pages, line 235
available_pages ==
    {"Home", "Live Fleet Monitoring", "Sign Up", "Log In", "Profile",
     "Dashboard", "Detailed Analysis"}

\* what can be typed into the e-mail and the mobile field
EmailInputs == {"", "ann.x.io", "ann@x.io"}

MobileInputs == {"", "12345", "+91 9876543210"}

\* re.match(email_pattern, email), line 460
ValidEmail(email) == email = "ann@x.io"

\* mobile.replace(" ", ""), line 464
MobileClean(mobile) ==
    IF mobile = "+91 9876543210" THEN "+919876543210" ELSE mobile

\* re.match(mobile_pattern, mobile_clean), line 466
ValidMobile(mobile_clean) == mobile_clean = "+919876543210"

\* Sign Up page, lines 444-484: the form is submitted with a username of U,
\* passwords of P, a name of N, an e-mail of E and a mobile number of M
SignUpFrom(U, P, N, E, M) ==
    /\ pc = "Sign Up"
    /\ \E username \in U, password \in P, password2 \in P, full_name \in N,
          email \in E, mobile \in M :
         LET shown(called, msg) ==
                 [username |-> username, password |-> password,
                  called |-> called, msg |-> msg]
             mobile_clean == MobileClean(mobile)
             r == create_user(users, username, password, full_name, email)
         IN IF "" \in {username, password, full_name, email, mobile}
            THEN /\ signup' = shown(FALSE, "Please fill all fields.")
                 /\ UNCHANGED users
            ELSE IF ~ValidEmail(email)
            THEN /\ signup' = shown(FALSE, "Enter a valid email address")
                 /\ UNCHANGED users
            ELSE IF ~ValidMobile(mobile_clean)
            THEN /\ signup' = shown(FALSE, "Enter a valid mobile number")
                 /\ UNCHANGED users
            ELSE IF password # password2
            THEN /\ signup' = shown(FALSE, "Passwords do not match.")
                 /\ UNCHANGED users
            ELSE IF r.ok
            THEN /\ users' =
                      [r.users EXCEPT ![username] =
                          [k \in DOMAIN r.users[username] \cup {"mobile"} |->
                              IF k = "mobile" THEN mobile_clean
                              ELSE r.users[username][k]]]
                 /\ signup' = shown(TRUE, "Account created. Please log in.")
            ELSE /\ users' = r.users
                 /\ signup' = shown(TRUE, r.msg)
    /\ UNCHANGED << servingVars, files, pkl, trainVars, current_user,
                    page_redirect, diagnosis_by >>

\* Log In page, lines 490-510: a login that authenticates; any other
\* submission shows an error and changes nothing
LogInFrom(U, P) ==
    /\ pc = "Log In"
    /\ \E username \in U, password \in P :
         /\ username # "" /\ password # ""
         /\ authenticate(username, password)
         /\ current_user' = username
    /\ page' = "Dashboard"
    /\ pc' = "start"
    /\ FreshLocals
    /\ UNCHANGED << car_model, cache, files, globals, data, pkl, trainVars,
                    users, page_redirect, diagnosis_by, signup >>

\* sidebar Logout button, lines 225-230
Logout ==
    /\ pc \in Rendered
    /\ current_user # PyNone
    /\ current_user' = PyNone
    /\ page' = "Home"
    /\ pc' = "start"
    /\ FreshLocals
    /\ signup' = NoSignup
    /\ UNCHANGED << car_model, cache, files, globals, data, pkl, trainVars,
                    users, page_redirect, diagnosis_by >>

\* Profile page without a signed-in user, line 518
ProfileLoginFirst ==
    /\ pc = "Profile"
    /\ current_user = PyNone
    /\ pc' = "login_first"
    /\ UNCHANGED << page, car_model, cache, files, globals, data, locals,
                    pkl, trainVars, sessionVars >>

\* Profile page, Add Car, lines 575-586: the form holds a make and the
\* model typed into the text input
AddCar ==
    /\ pc = "profile_shown"
    /\ model # ""
    /\ Len(users[current_user].cars) < MaxCars
    /\ users' = [users EXCEPT ![current_user].cars =
                     Append(@, Car("Toyota", model))]
    /\ car_model' = ""
    /\ pc' = "start"
    /\ FreshLocals
    /\ UNCHANGED << page, cache, files, globals, data, pkl, trainVars,
                    current_user, page_redirect, diagnosis_by, signup >>

\* Dashboard of a user without cars, Go to Profile Page, lines 651-655
GoToProfile ==
    /\ pc = "Dashboard"
    /\ current_user # PyNone
    /\ users[current_user].cars = << >>
    /\ page' = "Profile"
    /\ pc' = "start"
    /\ FreshLocals
    /\ UNCHANGED << car_model, cache, files, globals, data, pkl, trainVars,
                    sessionVars >>

\* Detailed Analysis page without a stored diagnosis: Back to Dashboard,
\* lines 723-725, stores page_redirect, a key no line reads, then st.rerun()
BackToDashboardEmpty ==
    /\ pc = "warned"
    /\ page_redirect' = "Dashboard"
    /\ pc' = "start"
    /\ FreshLocals
    /\ UNCHANGED << page, car_model, cache, files, globals, data, pkl,
                    trainVars, users, current_user, diagnosis_by, signup >>

SessionUsernames == {"ann", "bob"}

InitSession ==
    /\ pc = "start"
    /\ page = "Home"
    /\ car_model = PyNone
    /\ cache = NoCache
    /\ files = {}
    /\ pkl = ShippedPkl
    /\ TrainIdle
    /\ NoSession
    /\ model = PyNone
    /\ scaler = PyNone
    /\ encoder = PyNone
    /\ training_columns = NoColumns
    /\ data = NoReading
    /\ Locals

NextSession ==
    \/ LoadModelAssets
    \/ NavigateAmong(available_pages)
    \/ SignUpFrom(SessionUsernames, {"pw"}, {"Ann"}, {"ann@x.io"},
                  {"+91 9876543210"})
    \/ LogInFrom(SessionUsernames, {"pw"})
    \/ Logout
    \/ ProfilePage
    \/ ProfileLoginFirst
    \/ AddCar
    \/ GoToProfile
    \/ RunDiagnosisFrom({"safe"})
    \/ DetailedAnalysis
    \/ DetailedAnalysisEmpty
    \/ BackToDashboard
    \/ BackToDashboardEmpty

SpecSession == InitSession /\ [][NextSession]_vars

(***************************************************************************)
(* The Sign Up form on its own                                             *)
(***************************************************************************)

\* what can be typed into the username, password and name fields
UsernameInputs == {"", "ann", "bob"}

PasswordInputs == {"", "pw", "pw2"}

NameInputs == {"", "Ann", "Bea"}

\* the Sign Up page of a session in which nobody or ann has an account
InitUsers ==
    /\ pc = "Sign Up"
    /\ page = "Sign Up"
    /\ car_model = PyNone
    /\ cache = NoCache
    /\ files = {}
    /\ pkl = ShippedPkl
    /\ TrainIdle
    /\ \/ NoSession
       \/ /\ users = SetItem(NoUsers, "ann",
                              [pw_hash |-> hash_password("pw"),
                               full_name |-> "Ann", email |-> "ann@x.io",
                               mobile |-> "+919876543210",
                               cars |-> << Car("Toyota", "Corolla") >>])
          /\ current_user = PyNone
          /\ page_redirect = PyNone
          /\ diagnosis_by = PyNone
          /\ signup = NoSignup
    /\ model = PyNone
    /\ scaler = PyNone
    /\ encoder = PyNone
    /\ training_columns = NoColumns
    /\ data = NoReading
    /\ Locals

NextUsers ==
    SignUpFrom(UsernameInputs, PasswordInputs, NameInputs, EmailInputs,
               MobileInputs)

SpecUsers == InitUsers /\ [][NextUsers]_vars

(***************************************************************************)
(* check_custom_rules on its own                                           *)
(***************************************************************************)
InitRules ==
    /\ pc = "call"
    /\ page = "Dashboard"
    /\ car_model = PyNone
    /\ cache = NoCache
    /\ files = {}
    /\ pkl = ShippedPkl
    /\ TrainIdle
    /\ NoSession
    /\ model = PyNone
    /\ scaler = PyNone
    /\ encoder = PyNone
    /\ training_columns = NoColumns
    /\ \E base \in Positions, S \in Deviations :
          \E ov \in [S -> Positions \cup {"obj", "absent"}] :
             data = Reading(base, ov)
    /\ Locals

CallCheckCustomRules ==
    /\ pc = "call"
    /\ LET r == check_custom_rules(data) IN
        /\ rule_alerts' = r.ret
        /\ raised' = r.raised
    /\ pc' = "returned"
    /\ UNCHANGED << page, car_model, cache, files, globals, data,
                    predicted_failure, confidence, prediction_proba, invoked,
                    scaler_input, all_alerts, pkl, trainVars,
                    sessionVars >>

NextRules == CallCheckCustomRules

SpecRules == InitRules /\ [][NextRules]_vars

(***************************************************************************)
(* predict_failure on its own                                              *)
(***************************************************************************)
\* column lists a training_columns.pkl can hold: the list of the training
\* script, the same columns in another order, and a list that names a
\* column no reading has and leaves most sensor columns out
ColumnLists ==
    { TrainedColumns,
      [i \in 1..Len(TrainedColumns) |->
          TrainedColumns[Len(TrainedColumns) + 1 - i]],
      << "total_brake_wear", "cabin_humidity_pct", "engine_temp_c",
         "temp_pressure_ratio", "oil_pressure_kpa" >> }

\* the fields the derived features are computed from
SourceKeys ==
    {"engine_temp_c", "oil_pressure_kpa", "brake_pad_wear_mm_front",
     "brake_pad_wear_mm_rear"}

\* the reading d without the keys of gone
Without(d, gone) == [k \in DOMAIN d \ gone |-> d[k]]

InitPredict ==
    /\ pc = "call"
    /\ page = "Detailed Analysis"
    /\ car_model = PyNone
    /\ cache = NoCache
    /\ files = {}
    /\ pkl = ShippedPkl
    /\ TrainIdle
    /\ NoSession
    /\ model \in {PyNone, "XGBClassifier"}
    /\ scaler \in {PyNone, "StandardScaler"}
    /\ encoder \in {PyNone, "LabelEncoder"}
    /\ training_columns \in
          {NoColumns, Columns(<< >>)} \cup { Columns(l) : l \in ColumnLists }
    /\ \E pos \in Positions, gone \in SUBSET SourceKeys, temp \in {"num", "obj"} :
         data = Without(
                  DiagnosisInput(Sample("odometer_km", pos),
                                 IF temp = "obj" THEN Obj
                                 ELSE Sample("engine_temp_c", pos),
                                 Sample("battery_voltage_v", pos),
                                 Sample("oil_pressure_kpa", pos),
                                 Sample("brake_pad_wear_mm_front", pos)),
                  gone)
    /\ Locals

CallPredictFailure ==
    /\ pc = "call"
    /\ \E out \in Answers :
         LET p == predict_failure(data, out) IN
            /\ predicted_failure' = p.label
            /\ confidence' = p.confidence
            /\ prediction_proba' = p.proba
            /\ invoked' = p.invoked
            /\ scaler_input' = p.scaler_input
            /\ raised' = p.raised
            /\ pc' = IF p.raised = "none" THEN "returned" ELSE "raised"
    /\ UNCHANGED << page, car_model, cache, files, globals, data,
                    rule_alerts, all_alerts, pkl, trainVars,
                    sessionVars >>

NextPredict == CallPredictFailure

SpecPredict == InitPredict /\ [][NextPredict]_vars

(***************************************************************************)
(* The training script, lines 946-1057.                                    *)
(***************************************************************************)

\* The rows a dataset is made of.  A row is complete when none of its
\* cells but failure_type is empty; "NaN" is an empty failure_type cell.
RowKinds ==
    << [label |-> "NaN", complete |-> TRUE],
       [label |-> "None", complete |-> TRUE],
       [label |-> "Brake Failure", complete |-> TRUE],
       [label |-> "Overheating", complete |-> TRUE],
       [label |-> "NaN", complete |-> FALSE] >>

\* the labels in the order sorted() and numpy.unique put them
LabelOrder == << "Brake Failure", "None", "Overheating" >>

\* two layouts of the csv header
DatasetColumnOrders ==
    { << "vehicle_id", "timestamp" >> \o
          SubSeq(TrainedColumns, 1, Len(TrainedColumns) - 2) \o
          << "failure_type" >>,
      << "failure_type", "timestamp", "oil_pressure_kpa", "engine_temp_c",
         "odometer_km", "battery_voltage_v", "brake_pad_wear_mm_rear",
         "brake_pad_wear_mm_front", "suspension_health_pct",
         "tire_pressure_psi_fl", "coolant_level_pct",
         "brake_fluid_level_pct", "transmission_fluid_temp_c",
         "vehicle_id" >> }

NoCsv == [present |-> FALSE, columns |-> << >>, rows |-> << >>]

\* pd.read_csv: one frame row per csv row, numbered by the index
ReadCsv(rows) ==
    [i \in 1..Len(rows) |->
        [id |-> i, label |-> RowKinds[rows[i]].label,
         complete |-> RowKinds[rows[i]].complete]]

\* a script whose except clause prints and falls through to the next line
AfterLoadNoExit(present) == "Clean"

\* line 979: exit() when the file is not found
AfterLoad(present) == IF present THEN "Clean" ELSE "exited"

\* df['failure_type'].fillna('None')
FillNa(rows) ==
    [i \in 1..Len(rows) |->
        IF rows[i].label = "NaN" THEN [rows[i] EXCEPT !.label = "None"]
        ELSE rows[i]]

\* df.dropna(): every row with an empty cell goes
DropNa(rows) == SelectSeq(rows, LAMBDA r : r.complete)

\* df[col] = ...: an existing column keeps its place, a new one goes last
AddColumn(cols, c) == IF c \in Range(cols) THEN cols ELSE Append(cols, c)

\* df.drop(columns=...)
DropColumns(cols, gone) == SelectSeq(cols, LAMBDA c : c \notin gone)

\* lines 990, 994: X.columns
TrainingColumnsOf(cols) ==
    DropColumns(cols, {"vehicle_id", "timestamp", "failure_type"})

\* LabelEncoder.fit: the sorted distinct labels
Classes(labels) == SelectSeq(LabelOrder, LAMBDA l : l \in labels)

\* LabelEncoder.transform of one label: its position, from 0
CodeOf(classes, l) == (CHOOSE i \in DOMAIN classes : classes[i] = l) - 1

\* a target that changes from one run to the next
SampleSizePerRun(F) == (F + run_id) \div 2

\* a script that upsamples the normal class to the size of the failures
SampleSizeEqual(F) == F

\* line 1005: n_samples=len(df_failures) // 2
SampleSize(F) == F \div 2

\* random_state=42: the same draw for the same request
Seeded(picks) ==
    \/ ~rng42.drawn
    \/ Len(rng42.picks) # Len(picks)
    \/ rng42.picks = picks

\* the steps of the script, in the order of the file
Steps ==
    << "Load", "Clean", "Engineer", "Encode", "Balance", "Scale", "Split",
       "Train", "Persist" >>

StepIndex(step) == CHOOSE i \in DOMAIN Steps : Steps[i] = step

\* a script that splits before it scales
StepAfterSplitFirst(step) ==
    CASE step = "Balance" -> "Split"
      [] step = "Split" -> "Scale"
      [] step = "Scale" -> "Train"
      [] step = "Persist" -> "done"
      [] OTHER -> Steps[StepIndex(step) + 1]

\* straight-line code: each step is followed by the next one of the file
StepAfter(step) ==
    IF step = "Persist" THEN "done" ELSE Steps[StepIndex(step) + 1]

\* files_to_save, in the insertion order of the dict
FilesToSave ==
    << "model.pkl", "scaler.pkl", "encoder.pkl", "training_columns.pkl" >>

\* an uncaught exception ends the process
Crash(exc) ==
    /\ tpc' = "crashed"
    /\ t_raised' = exc

untouched == << servingVars, sessionVars, csv, run_id >>

\* Step 1, lines 974-979
TrainLoad ==
    /\ tpc = "Load"
    /\ trace' = Append(trace, "Load")
    /\ tpc' = AfterLoad(csv.present)
    /\ IF csv.present
       THEN /\ df' = ReadCsv(csv.rows)
            /\ df_columns' = csv.columns
       ELSE UNCHANGED << df, df_columns >>
    /\ UNCHANGED << untouched, files, pkl, saved, le, y_encoded,
                    t_training_columns, df_balanced, t_scaler, split,
                    final_model, t_raised, rng42, runs_log >>

\* Step 2, lines 982-984
TrainClean ==
    /\ tpc = "Clean"
    /\ trace' = Append(trace, "Clean")
    /\ df' = DropNa(FillNa(df))
    /\ tpc' = StepAfter("Clean")
    /\ UNCHANGED << untouched, files, pkl, saved, df_columns, le, y_encoded,
                    t_training_columns, df_balanced, t_scaler, split,
                    final_model, t_raised, rng42, runs_log >>

\* lines 987-988
TrainEngineer ==
    /\ tpc = "Engineer"
    /\ trace' = Append(trace, "Engineer")
    /\ df_columns' = AddColumn(AddColumn(df_columns, "temp_pressure_ratio"),
                               "total_brake_wear")
    /\ tpc' = StepAfter("Engineer")
    /\ UNCHANGED << untouched, files, pkl, saved, df, le, y_encoded,
                    t_training_columns, df_balanced, t_scaler, split,
                    final_model, t_raised, rng42, runs_log >>

\* lines 990-994
TrainEncode ==
    /\ tpc = "Encode"
    /\ trace' = Append(trace, "Encode")
    /\ LET y_text == [i \in 1..Len(df) |-> df[i].label]
           classes == Classes(Range(y_text))
       IN /\ le' = classes
          /\ y_encoded' = [i \in 1..Len(df) |-> CodeOf(classes, y_text[i])]
    /\ t_training_columns' = TrainingColumnsOf(df_columns)
    /\ tpc' = StepAfter("Encode")
    /\ UNCHANGED << untouched, files, pkl, saved, df, df_columns, df_balanced,
                    t_scaler, split, final_model, t_raised, rng42, runs_log >>

\* Step 3, lines 997-1012.  le.transform(['None']) raises ValueError for a
\* label the encoder has not seen.
TrainBalance ==
    /\ tpc = "Balance"
    /\ trace' = Append(trace, "Balance")
    /\ IF "None" \notin Range(le)
       THEN /\ Crash("ValueError")
            /\ UNCHANGED << df_balanced, rng42, runs_log >>
       ELSE LET normal_class_id == CodeOf(le, "None")
                df_to_balance ==
                    [i \in 1..Len(df) |->
                        [id |-> df[i].id, failure_type |-> y_encoded[i]]]
                df_failures ==
                    SelectSeq(df_to_balance,
                              LAMBDA r : r.failure_type # normal_class_id)
                df_normal ==
                    SelectSeq(df_to_balance,
                              LAMBDA r : r.failure_type = normal_class_id)
                n_samples == SampleSize(Len(df_failures))
            IN \E picks \in [1..n_samples -> 1..Len(df_normal)] :
                 LET df_normal_upsampled ==
                         [i \in 1..n_samples |-> df_normal[picks[i]]]
                     rows == df_failures \o df_normal_upsampled
                 IN /\ Seeded(picks)
                    /\ rng42' = [drawn |-> TRUE, picks |-> picks]
                    /\ df_balanced' =
                         [columns |->
                              DropColumns(Append(t_training_columns,
                                                 "failure_type"),
                                          {"failure_type"}),
                          rows |-> rows]
                    /\ runs_log' =
                         Append(runs_log,
                                [classes |-> le,
                                 normal_class_id |-> normal_class_id,
                                 size |-> Len(rows)])
                    /\ tpc' = StepAfter("Balance")
                    /\ t_raised' = "none"
    /\ UNCHANGED << untouched, files, pkl, saved, df, df_columns, le,
                    y_encoded, t_training_columns, t_scaler, split,
                    final_model >>

\* Step 4, lines 1015-1016.  StandardScaler.fit raises ValueError for a
\* matrix without rows.
TrainScale ==
    /\ tpc = "Scale"
    /\ trace' = Append(trace, "Scale")
    /\ IF df_balanced.rows = << >>
       THEN /\ Crash("ValueError")
            /\ UNCHANGED t_scaler
       ELSE /\ t_scaler' =
                 [fitted |-> TRUE, columns |-> df_balanced.columns,
                  rows |-> [i \in 1..Len(df_balanced.rows) |->
                               df_balanced.rows[i].id]]
            /\ tpc' = StepAfter("Scale")
            /\ t_raised' = "none"
    /\ UNCHANGED << untouched, files, pkl, saved, df, df_columns, le,
                    y_encoded, t_training_columns, df_balanced, split,
                    final_model, rng42, runs_log >>

\* test_size=0.2: the test partition has ceil(0.2 n) rows
TestSize(n) == (n + 4) \div 5

\* stratify=y_final: train_test_split raises ValueError when a partition is
\* empty, when a class has one member, or when a partition has fewer rows
\* than there are classes
SplitRejects(y) ==
    LET n == Len(y)
        classes == Range(y)
    IN \/ n - TestSize(n) = 0
       \/ \E c \in classes : Cardinality({i \in 1..n : y[i] = c}) < 2
       \/ n - TestSize(n) < Cardinality(classes)
       \/ TestSize(n) < Cardinality(classes)

\* Step 5, lines 1020-1023.  Which rows go where plays no part in what
\* follows; the sizes of the partitions are kept.
TrainSplit ==
    /\ tpc = "Split"
    /\ trace' = Append(trace, "Split")
    /\ LET y_final == [i \in 1..Len(df_balanced.rows) |->
                          df_balanced.rows[i].failure_type]
           n == Len(y_final)
       IN IF SplitRejects(y_final)
          THEN /\ Crash("ValueError")
               /\ UNCHANGED split
          ELSE /\ split' = [n_train |-> n - TestSize(n),
                            n_test |-> TestSize(n)]
               /\ tpc' = StepAfter("Split")
               /\ t_raised' = "none"
    /\ UNCHANGED << untouched, files, pkl, saved, df, df_columns, le,
                    y_encoded, t_training_columns, df_balanced, t_scaler,
                    final_model, rng42, runs_log >>

\* Step 6, lines 1027-1040: the model is fitted on rows of X_scaled
TrainFit ==
    /\ tpc = "Train"
    /\ trace' = Append(trace, "Train")
    /\ final_model' = [fitted |-> TRUE, columns |-> t_scaler.columns,
                       num_class |-> Len(le)]
    /\ tpc' = StepAfter("Train")
    /\ UNCHANGED << untouched, files, pkl, saved, df, df_columns, le,
                    y_encoded, t_training_columns, df_balanced, t_scaler,
                    split, t_raised, rng42, runs_log >>

\* what pickle.dump writes into a file of files_to_save
Pickled(filename) ==
    CASE filename = "model.pkl" -> Content(run_id, final_model.columns, le)
      [] filename = "scaler.pkl" -> Content(run_id, t_scaler.columns, << >>)
      [] filename = "encoder.pkl" -> Content(run_id, << >>, le)
      [] filename = "training_columns.pkl" ->
             Content(run_id, t_training_columns, << >>)

\* Step 8, lines 1052-1055: one pass of the save loop
TrainPersist ==
    /\ tpc = "Persist"
    /\ trace' = IF saved = {} THEN Append(trace, "Persist") ELSE trace
    /\ LET filename == FilesToSave[Cardinality(saved) + 1] IN
        /\ files' = files \cup {filename}
        /\ pkl' = [pkl EXCEPT ![filename] = Pickled(filename)]
        /\ saved' = saved \cup {filename}
        /\ tpc' = IF Cardinality(saved) + 1 = Len(FilesToSave)
                  THEN StepAfter("Persist") ELSE "Persist"
    /\ UNCHANGED << untouched, df, df_columns, le, y_encoded,
                    t_training_columns, df_balanced, t_scaler, split,
                    final_model, t_raised, rng42, runs_log >>

\* lines 1053-1054: open() or pickle.dump raises OSError (no space left,
\* no permission), or the process is killed: the run ends inside the loop
\* with the files written so far left on disk
TrainPersistRaises ==
    /\ tpc = "Persist"
    /\ trace' = IF saved = {} THEN Append(trace, "Persist") ELSE trace
    /\ Crash("OSError")
    /\ UNCHANGED << untouched, files, pkl, saved, df, df_columns, le,
                    y_encoded, t_training_columns, df_balanced, t_scaler,
                    split, final_model, rng42, runs_log >>

\* a new process: nothing of the last run is left but the files
FreshRun ==
    /\ trace = << >>
    /\ saved = {}
    /\ df = << >>
    /\ df_columns = << >>
    /\ le = << >>
    /\ y_encoded = << >>
    /\ t_training_columns = << >>
    /\ df_balanced = [columns |-> << >>, rows |-> << >>]
    /\ t_scaler = [fitted |-> FALSE, columns |-> << >>, rows |-> << >>]
    /\ split = [n_train |-> 0, n_test |-> 0]
    /\ final_model = [fitted |-> FALSE, columns |-> << >>, num_class |-> 0]
    /\ t_raised = "none"

\* the script is started again once the last run has ended
TrainAgain ==
    /\ tpc \in {"done", "crashed", "exited"}
    /\ run_id < MaxRuns
    /\ run_id' = run_id + 1
    /\ tpc' = "Load"
    /\ trace' = << >>
    /\ saved' = {}
    /\ df' = << >>
    /\ df_columns' = << >>
    /\ le' = << >>
    /\ y_encoded' = << >>
    /\ t_training_columns' = << >>
    /\ df_balanced' = [columns |-> << >>, rows |-> << >>]
    /\ t_scaler' = [fitted |-> FALSE, columns |-> << >>, rows |-> << >>]
    /\ split' = [n_train |-> 0, n_test |-> 0]
    /\ final_model' = [fitted |-> FALSE, columns |-> << >>, num_class |-> 0]
    /\ t_raised' = "none"
    /\ UNCHANGED << servingVars, sessionVars, csv, files, pkl, rng42,
                    runs_log >>

\* the files a run made earlier left on disk, from a csv of another layout
OldColumns ==
    << "total_brake_wear", "temp_pressure_ratio", "oil_pressure_kpa",
       "engine_temp_c" >>

OldPkl ==
    [f \in ArtifactFiles |->
        Content(0, OldColumns, << "None", "Transmission Failure" >>)]

\* the rows of a csv, up to their order
Datasets(n) ==
    { rows \in [1..n -> 1..Len(RowKinds)] :
        \A i \in 1..n - 1 : rows[i] <= rows[i + 1] }

\* no serving process
ServingOff ==
    /\ NoSession
    /\ pc = "off"
    /\ page = "Dashboard"
    /\ car_model = PyNone
    /\ cache = NoCache
    /\ model = PyNone
    /\ scaler = PyNone
    /\ encoder = PyNone
    /\ training_columns = NoColumns
    /\ data = NoReading
    /\ Locals

InitTrain ==
    /\ ServingOff
    /\ \/ csv = NoCsv
       \/ \E n \in 0..MaxRows : \E rows \in Datasets(n) :
          \E cols \in DatasetColumnOrders :
             csv = [present |-> TRUE, columns |-> cols, rows |-> rows]
    /\ files \in {{}, ArtifactFiles}
    /\ pkl = OldPkl
    /\ run_id = 1
    /\ tpc = "Load"
    /\ FreshRun
    /\ rng42 = [drawn |-> FALSE, picks |-> << >>]
    /\ runs_log = << >>

NextTrain ==
    \/ TrainLoad
    \/ TrainClean
    \/ TrainEngineer
    \/ TrainEncode
    \/ TrainBalance
    \/ TrainScale
    \/ TrainSplit
    \/ TrainFit
    \/ TrainPersist
    \/ TrainAgain

SpecTrain == InitTrain /\ [][NextTrain]_vars

(***************************************************************************)
(* One run of the training script in the directory a serving process       *)
(* starts in: the script of lines 1-942 opens the files the script of      *)
(* lines 946-1057 writes.                                                  *)
(***************************************************************************)

\* the complete rows labelled "None" or "Brake Failure"
DeployKinds ==
    { k \in DOMAIN RowKinds :
        RowKinds[k].complete /\ RowKinds[k].label \in {"None", "Brake Failure"} }

\* the datasets of n such rows
DeployDatasets(n) ==
    { rows \in [1..n -> DeployKinds] :
        \A i \in 1..n - 1 : rows[i] <= rows[i + 1] }

InitDeploy ==
    /\ SignedIn
    /\ pc = "start"
    /\ page = "Detailed Analysis"
    /\ car_model = PyNone
    /\ cache = NoCache
    /\ model = PyNone
    /\ scaler = PyNone
    /\ encoder = PyNone
    /\ training_columns = NoColumns
    /\ data = DiagnosisInput(Sample("odometer_km", "safe"),
                             Sample("engine_temp_c", "safe"),
                             Sample("battery_voltage_v", "safe"),
                             Sample("oil_pressure_kpa", "safe"),
                             Sample("brake_pad_wear_mm_front", "safe"))
    /\ Locals
    /\ \E n \in {MaxRows - 1, MaxRows} : \E rows \in DeployDatasets(n) :
       \E cols \in DatasetColumnOrders :
          csv = [present |-> TRUE, columns |-> cols, rows |-> rows]
    /\ files \in {{}, ArtifactFiles}
    /\ pkl = OldPkl
    /\ run_id = 1
    /\ tpc = "Load"
    /\ FreshRun
    /\ rng42 = [drawn |-> FALSE, picks |-> << >>]
    /\ runs_log = << >>

NextDeploy ==
    \/ TrainLoad
    \/ TrainClean
    \/ TrainEngineer
    \/ TrainEncode
    \/ TrainBalance
    \/ TrainScale
    \/ TrainSplit
    \/ TrainFit
    \/ TrainPersist
    \/ TrainPersistRaises
    \/ LoadModelAssets
    \/ DetailedAnalysis

SpecDeploy == InitDeploy /\ [][NextDeploy]_vars


(***************************************************************************)
(* Properties of check_custom_rules (checked under SpecRules)              *)
(***************************************************************************)
Returned == pc = "returned"

Has(d, k) == k \in DOMAIN d

IsNum(d, k) == Has(d, k) /\ d[k].kind = "num"

Count(s, x) == Cardinality({ i \in DOMAIN s : s[i] = x })

\* The threshold table of the specification, by alert label.  It is only
\* applied where the keys it reads hold numbers (the rear wear may be absent
\* and then counts as 3).
TableHolds(label, d) ==
    CASE label = "Maintenance Due / High Mileage Warning" ->
            d["odometer_km"].v > 300000
      [] label = "Engine Overheating" -> d["engine_temp_c"].v > 110
      [] label = "Battery Failure" -> d["battery_voltage_v"].v < 12
      [] label = "Low Oil Pressure Warning" -> d["oil_pressure_kpa"].v < 150
      [] label = "Brake Pads Critically Worn" ->
            \/ d["brake_pad_wear_mm_front"].v < 3
            \/ IsNum(d, "brake_pad_wear_mm_rear")
                 /\ d["brake_pad_wear_mm_rear"].v < 3
      [] label = "Suspension Failure Risk" -> d["suspension_health_pct"].v < 40
      [] label = "Low Tire Pressure" -> d["tire_pressure_psi_fl"].v < 20
      [] label = "Coolant Critically Low" -> d["coolant_level_pct"].v < 30
      [] label = "Brake Fluid Critically Low" -> d["brake_fluid_level_pct"].v < 20
      [] label = "Transmission Overheating" ->
            d["transmission_fluid_temp_c"].v > 110

TableLabels ==
    << "Maintenance Due / High Mileage Warning", "Engine Overheating",
       "Battery Failure", "Low Oil Pressure Warning",
       "Brake Pads Critically Worn", "Suspension Failure Risk",
       "Low Tire Pressure", "Coolant Critically Low",
       "Brake Fluid Critically Low", "Transmission Overheating" >>

\* the key the i-th row of the table reads first
TableKey(i) == RequiredKeys[i]

\* a reading of the data model: the ten required keys hold numbers, the rear
\* wear is absent or a number
WellFormed(d) ==
    /\ \A i \in 1..10 : IsNum(d, TableKey(i))
    /\ Has(d, RearKey) => IsNum(d, RearKey)

\* the i-th row cannot be decided: its key is missing or holds no number
\* (the rear wear is read only when the front wear is not below 3)
Undecidable(i, d) ==
    \/ ~IsNum(d, TableKey(i))
    \/ /\ i = 5
       /\ ~(d["brake_pad_wear_mm_front"].v < 3)
       /\ Has(d, RearKey)
       /\ ~IsNum(d, RearKey)

\* the first row that cannot be decided, 11 if there is none
FirstUndecidable(d) ==
    IF \E i \in 1..10 : Undecidable(i, d)
    THEN CHOOSE i \in 1..10 :
            Undecidable(i, d) /\ \A j \in 1..(i - 1) : ~Undecidable(j, d)
    ELSE 11

MissingRequired(d) == \E i \in 1..10 : ~Has(d, TableKey(i))

\* C1: for a reading that carries the ten required keys (rear wear absent or
\* present), the call returns a label if and only if the label's row of the
\* threshold table holds, with strict inequalities: a value on its threshold
\* raises no alert and a reading that satisfies no row yields the empty list.
C1_RulesMatchTable ==
    (Returned /\ WellFormed(data)) =>
        /\ raised = "none"
        /\ \A i \in 1..10 :
              TableLabels[i] \in Range(rule_alerts)
                 <=> TableHolds(TableLabels[i], data)
        /\ Range(rule_alerts) \subseteq Range(TableLabels)

\* C1 witness: every value sits on its threshold except the odometer, the
\* rear wear is absent, and the only alert is the mileage warning.
C1_Witness ==
    /\ Returned
    /\ WellFormed(data)
    /\ ~Has(data, RearKey)
    /\ data["engine_temp_c"].v = 110
    /\ data["battery_voltage_v"].v = 12
    /\ data["brake_pad_wear_mm_front"].v = 3
    /\ data["odometer_km"].v > 300000
    /\ rule_alerts = << "Maintenance Due / High Mileage Warning" >>

\* C2: the returned list holds each label at most once; the brake label is
\* there exactly once when front and rear wear are both below 3 (and the
\* four rows before it can be decided), and a reading that satisfies all ten
\* rows yields the ten labels, each once.
C2_NoDuplicates ==
    Returned =>
        /\ \A l \in Range(rule_alerts) : Count(rule_alerts, l) = 1
        /\ ( /\ \A i \in 1..5 : IsNum(data, TableKey(i))
             /\ IsNum(data, RearKey)
             /\ data["brake_pad_wear_mm_front"].v < 3
             /\ data[RearKey].v < 3 )
           => Count(rule_alerts, "Brake Pads Critically Worn") = 1
        /\ ( /\ WellFormed(data)
             /\ \A i \in 1..10 : TableHolds(TableLabels[i], data) )
           => /\ Len(rule_alerts) = 10
              /\ Range(rule_alerts) = Range(TableLabels)

\* C2 witness: all ten rows hold, both axles are worn, ten alerts returned.
C2_Witness ==
    /\ Returned
    /\ WellFormed(data)
    /\ IsNum(data, RearKey)
    /\ data["brake_pad_wear_mm_front"].v < 3
    /\ data[RearKey].v < 3
    /\ \A i \in 1..10 : TableHolds(TableLabels[i], data)
    /\ Len(rule_alerts) = 10
    /\ Count(rule_alerts, "Brake Pads Critically Worn") = 1

\* C6: the call never raises: whatever keys are missing and whatever values
\* cannot be compared with a number, it returns a list of alert labels.
C6_NeverRaises ==
    /\ raised = "none"
    /\ Range(rule_alerts) \subseteq Range(TableLabels)

\* C6 witness: the odometer holds a value that cannot be compared, the
\* engine temperature is missing, and the call has returned.
C6_Witness ==
    /\ Returned
    /\ Has(data, "odometer_km")
    /\ ~IsNum(data, "odometer_km")
    /\ ~Has(data, "engine_temp_c")
    /\ raised = "none"

\* C7 as stated: if a required key is missing, no rule alert at all is
\* returned, not even of rows evaluated before the missing key.
C7_NoPartialResults ==
    (Returned /\ MissingRequired(data)) => rule_alerts = << >>

\* C7 amended: if a required key is missing, the pass stops at the first
\* row that cannot be decided: that row and the rows after it contribute
\* nothing, the rows before it contribute their alerts as the table says.
C7_AbortsAtFirstFailure ==
    (Returned /\ MissingRequired(data)) =>
        LET f == FirstUndecidable(data) IN
        /\ f <= 10
        /\ \A i \in 1..10 :
              TableLabels[i] \in Range(rule_alerts)
                 <=> (i < f /\ TableHolds(TableLabels[i], data))

\* C7 witness: the tire pressure is missing, rows before it hold and are
\* returned, the rows after it hold and are not.
C7_Witness ==
    /\ Returned
    /\ ~Has(data, "tire_pressure_psi_fl")
    /\ \A i \in (1..10) \ {7} :
          IsNum(data, TableKey(i)) /\ TableHolds(TableLabels[i], data)
    /\ Len(rule_alerts) = 6
    /\ "Coolant Critically Low" \notin Range(rule_alerts)

\* C8 as stated: a missing or invalid key skips its own rule only; every
\* other rule whose keys are present and whose condition holds contributes
\* its alert, before or after the failing rule.
C8_SkipsOnlyFailingRule ==
    Returned =>
        \A i \in 1..10 :
            ( /\ IsNum(data, TableKey(i))
              /\ ~Undecidable(i, data)
              /\ TableHolds(TableLabels[i], data) )
            => TableLabels[i] \in Range(rule_alerts)

(***************************************************************************)
(* Properties of the fusion (checked under Spec)                           *)
(***************************************************************************)
Shown == pc = "shown"

\* C3: with confidence below 50 the fused set is exactly the set of rule
\* alerts, whatever the predicted label.
C3_LowConfidenceAddsNothing ==
    (Shown /\ confidence < 50) => all_alerts = Range(rule_alerts)

\* C3 witness: a failure label predicted with confidence 49 next to rule
\* alerts, and the label is not in the fused set.
C3_Witness ==
    /\ Shown
    /\ predicted_failure = "Transmission Failure"
    /\ confidence = 49
    /\ rule_alerts # << >>
    /\ "Transmission Failure" \notin all_alerts

\* C4: a predicted label "None" or "Normal" is never added, at any
\* confidence up to 100: the fused set is exactly the set of rule alerts.
C4_SentinelNeverAdded ==
    (Shown /\ predicted_failure \in {"None", "Normal"}) =>
        all_alerts = Range(rule_alerts)

\* C4 witness: "Normal" predicted with confidence 100 and not added.
C4_Witness ==
    /\ Shown
    /\ predicted_failure = "Normal"
    /\ confidence = 100
    /\ "Normal" \notin all_alerts

\* C5: a predicted label other than exactly "None" or "Normal" with
\* confidence >= 50 (50 included) is in the fused set.
C5_FailureLabelAdded ==
    (Shown /\ predicted_failure \notin {"None", "Normal"} /\ confidence >= 50)
        => predicted_failure \in all_alerts

\* C5 witness: "none" predicted with confidence exactly 50 and added.
C5_Witness ==
    /\ Shown
    /\ predicted_failure = "none"
    /\ confidence = 50
    /\ "none" \in all_alerts

\* C10: with an artifact file missing the script does not crash and every
\* diagnosis runs on rules only: the fused set is the set of rule alerts
\* and the label "Model not loaded" is not in it.
C10_RuleOnlyMode ==
    (files # ArtifactFiles) =>
        /\ pc # "crashed"
        /\ raised = "none"
        /\ Shown =>
            /\ predicted_failure = "Model not loaded"
            /\ all_alerts = Range(rule_alerts)
            /\ "Model not loaded" \notin all_alerts

\* C10 witness: scaler.pkl is missing and a diagnosis with rule alerts has
\* been shown.
C10_Witness ==
    /\ files = ArtifactFiles \ {"scaler.pkl"}
    /\ Shown
    /\ rule_alerts # << >>
    /\ all_alerts = Range(rule_alerts)

(***************************************************************************)
(* Properties of predict_failure (checked under SpecPredict)               *)
(***************************************************************************)
AnArtifactAbsent ==
    \/ model = PyNone
    \/ scaler = PyNone
    \/ encoder = PyNone
    \/ training_columns.isNone

\* C9: if any of the four artifacts is absent, predict_failure returns
\* ("Model not loaded", 0, None) and calls neither the scaler, nor the
\* model, nor the encoder.
C9_ModelUnavailable ==
    (Returned /\ AnArtifactAbsent) =>
        /\ predicted_failure = "Model not loaded"
        /\ confidence = 0
        /\ prediction_proba = PyNone
        /\ invoked = {}
        /\ raised = "none"

\* C9 witness: only the encoder is absent and the call has returned the
\* model-unavailable signal.
C9_Witness ==
    /\ Returned
    /\ model # PyNone
    /\ scaler # PyNone
    /\ encoder = PyNone
    /\ ~training_columns.isNone
    /\ training_columns.list # << >>
    /\ predicted_failure = "Model not loaded"

Called == pc \in {"returned", "raised"}

DerivedNames == {"temp_pressure_ratio", "total_brake_wear"}

\* the cell the scaler receives for column name
ScalerCell(name) ==
    scaler_input.row[CHOOSE i \in 1..Len(scaler_input.columns) :
                        scaler_input.columns[i] = name]

\* C11: the frame handed to the scaler has exactly the training columns in
\* the training order; a training column the reading lacks holds 0, a
\* reading key that is no training column is dropped, and a mismatch of
\* column set or order raises nothing (only a value that is no number makes
\* the scaler raise).
C11_ReindexedToTrainingColumns ==
    (Called /\ AssetsLoaded) =>
        /\ scaler_input.columns = training_columns.list
        /\ Len(scaler_input.row) = Len(training_columns.list)
        /\ \A i \in 1..Len(training_columns.list) :
              LET c == training_columns.list[i] IN
              c \notin DerivedNames =>
                 scaler_input.row[i] = IF Has(data, c) THEN data[c] ELSE Num(0)
        /\ \A k \in DOMAIN data :
              k \notin Range(training_columns.list)
                 => k \notin Range(scaler_input.columns)
        /\ raised \in {"none", "ValueError"}
        /\ raised = "ValueError" =>
              \E c \in Range(training_columns.list) :
                 Has(data, c) /\ ~IsNum(data, c)

\* C11 witness: the column list names a column no reading has and the
\* reading lacks the oil pressure; both positions hold 0, the car and the
\* fuel level are dropped, and the call has returned.
C11_Witness ==
    /\ Returned
    /\ AssetsLoaded
    /\ Len(training_columns.list) = 5
    /\ training_columns.list[2] = "cabin_humidity_pct"
    /\ ~Has(data, "oil_pressure_kpa")
    /\ Has(data, "car")
    /\ Has(data, "fuel_level_pct")
    /\ scaler_input.columns = training_columns.list
    /\ scaler_input.row[2] = Num(0)
    /\ scaler_input.row[5] = Num(0)
    /\ scaler_input.row[3] = data["engine_temp_c"]

\* C12: a derived feature whose source field is missing is 0.0, the other
\* derived feature is still computed from its own fields, and the call goes
\* on to inference.
C12_DerivedFeatureDefaults ==
    (Called /\ AssetsLoaded
       /\ DerivedNames \subseteq Range(training_columns.list)) =>
        /\ (~Has(data, "engine_temp_c") \/ ~Has(data, "oil_pressure_kpa"))
              => ScalerCell("temp_pressure_ratio") = Num(0)
        /\ (IsNum(data, "engine_temp_c") /\ IsNum(data, "oil_pressure_kpa"))
              => ScalerCell("temp_pressure_ratio") =
                    Num((data["engine_temp_c"].v * 1000)
                           \div data["oil_pressure_kpa"].v)
        /\ (~Has(data, "brake_pad_wear_mm_front")
               \/ ~Has(data, "brake_pad_wear_mm_rear"))
              => ScalerCell("total_brake_wear") = Num(0)
        /\ (IsNum(data, "brake_pad_wear_mm_front")
               /\ IsNum(data, "brake_pad_wear_mm_rear"))
              => ScalerCell("total_brake_wear") =
                    Num(data["brake_pad_wear_mm_front"].v
                           + data["brake_pad_wear_mm_rear"].v)
        /\ (\A c \in Range(training_columns.list) :
               Has(data, c) => IsNum(data, c))
              => /\ Returned
                 /\ invoked = {"scaler", "model", "encoder"}
                 /\ predicted_failure \in EncoderClasses

\* C12 witness: the oil pressure is missing, so the ratio is 0.0, while the
\* total brake wear is the sum of its two fields and the model was called.
C12_Witness ==
    /\ Returned
    /\ AssetsLoaded
    /\ training_columns.list = TrainedColumns
    /\ ~Has(data, "oil_pressure_kpa")
    /\ IsNum(data, "engine_temp_c")
    /\ IsNum(data, "brake_pad_wear_mm_front")
    /\ IsNum(data, "brake_pad_wear_mm_rear")
    /\ ScalerCell("temp_pressure_ratio") = Num(0)
    /\ ScalerCell("total_brake_wear") =
          Num(data["brake_pad_wear_mm_front"].v + data["brake_pad_wear_mm_rear"].v)
    /\ ScalerCell("total_brake_wear") # Num(0)
    /\ "model" \in invoked

(***************************************************************************)
(* Properties of the loaded artifacts (checked under Spec)                 *)
(***************************************************************************)
\* C13: no request changes the loaded artifacts: whenever the Detailed
\* Analysis page runs predict_failure, also after visits of the Profile
\* page (whose form binds the name model to a text input), the four globals
\* are what load_model_assets returned.
C13_ArtifactsUnchanged ==
    (pc \in {"Detailed Analysis", "shown"}) =>
        /\ cache.set
        /\ cache.value = load_model_assets(files)
        /\ model = cache.value.model
        /\ scaler = cache.value.scaler
        /\ encoder = cache.value.encoder
        /\ training_columns = cache.value.columns

\* C13 witness: the Profile page has been rendered and a later diagnosis
\* has run with the loaded classifier.
C13_Witness ==
    /\ pc = "shown"
    /\ car_model # PyNone
    /\ model = "XGBClassifier"
    /\ predicted_failure \in EncoderClasses

\* C16: the fused set contains every rule alert and at most one further
\* element, the predicted label; a predicted label that is already a rule
\* alert adds no second entry; nothing of an earlier diagnosis is in it.
C16_FusedSetShape ==
    Shown =>
        /\ Range(rule_alerts) \subseteq all_alerts
        /\ all_alerts \ Range(rule_alerts) \subseteq {predicted_failure}
        /\ Cardinality(all_alerts) <= Cardinality(Range(rule_alerts)) + 1
        /\ predicted_failure \in Range(rule_alerts)
              => Cardinality(all_alerts) = Len(rule_alerts)
        /\ rule_alerts = check_custom_rules(data).ret

\* C16 witness: the classifier predicts "Engine Overheating" with
\* confidence 100 while the rules raise the same alert and another one; the
\* fused set has two elements.
C16_Witness ==
    /\ Shown
    /\ predicted_failure = "Engine Overheating"
    /\ confidence = 100
    /\ rule_alerts = << "Engine Overheating", "Battery Failure" >>
    /\ all_alerts = {"Engine Overheating", "Battery Failure"}


(***************************************************************************)
(* Claims about the training script.                                       *)
(***************************************************************************)

IsPrefix(a, b) == Len(a) <= Len(b) /\ SubSeq(b, 1, Len(a)) = a

\* the files the current run has written
WrittenByRun == { f \in files : pkl[f].run = run_id }

\* C14: when the dataset file is absent the run ends at the Load step: no
\* step after Load is executed, nothing of what the later steps compute
\* exists, the run writes none of the four artifact files, and no step
\* changes the set of files on disk or what they hold.
C14_MissingDatasetStopsAtLoad ==
    /\ [](~csv.present =>
            /\ tpc \in {"Load", "exited"}
            /\ IsPrefix(trace, << "Load" >>)
            /\ tpc = "exited" => trace = << "Load" >>
            /\ saved = {}
            /\ WrittenByRun = {}
            /\ pkl = OldPkl
            /\ df = << >> /\ le = << >> /\ df_balanced.rows = << >>
            /\ ~t_scaler.fitted /\ ~final_model.fitted)
    /\ [][~csv.present => files' = files /\ pkl' = pkl]_vars

\* the file is absent, the run has exited, and the four files of an
\* earlier run are on disk
C14_Witness ==
    /\ ~csv.present
    /\ tpc = "exited"
    /\ trace = << "Load" >>
    /\ files = ArtifactFiles
    /\ run_id = MaxRuns

C17_LinearStepOrder ==
    /\ IsPrefix(trace, Steps)
    /\ tpc = "done" => trace = Steps /\ saved = ArtifactFiles
    /\ tpc \in Range(Steps) /\ saved = {} =>
           trace = SubSeq(Steps, 1, StepIndex(tpc) - 1)
    /\ tpc = "crashed" => t_raised # "none" /\ trace # << >>
    /\ t_scaler.fitted =>
           /\ Len(t_scaler.rows) = Len(df_balanced.rows)
           /\ \A i \in DOMAIN t_scaler.rows :
                  t_scaler.rows[i] = df_balanced.rows[i].id
    /\ split.n_train > 0 =>
           /\ t_scaler.fitted
           /\ split.n_train + split.n_test = Len(t_scaler.rows)
    /\ final_model.fitted => split.n_train > 0
    /\ WrittenByRun # {} =>
           /\ final_model.fitted
           /\ IsPrefix(SubSeq(Steps, 1, 8), trace)
    /\ WrittenByRun = saved

\* a run has gone through all nine steps and written the four files
C17_Witness ==
    /\ csv.present
    /\ tpc = "done"
    /\ trace = Steps
    /\ WrittenByRun = ArtifactFiles
    /\ split.n_test >= 2

\* the Balance step of the current run has built the balanced frame
Balanced ==
    /\ "Balance" \in Range(trace)
    /\ ~(tpc = "crashed" /\ trace[Len(trace)] = "Balance")

FailureIds == { df[i].id : i \in { k \in DOMAIN df : df[k].label # "None" } }

NormalIds == { df[i].id : i \in { k \in DOMAIN df : df[k].label = "None" } }

BalancedIds == [i \in DOMAIN df_balanced.rows |-> df_balanced.rows[i].id]

\* C18: after Balance the balanced frame holds every failure row exactly
\* once, and floor(F/2) further rows, each a copy of a normal row (the same
\* normal row may be copied more than once); it has F + floor(F/2) rows and
\* twice the number of normal rows is at most F.
C18_BalancedFrame ==
    Balanced =>
        LET F == Cardinality(FailureIds)
            added == { i \in DOMAIN BalancedIds : BalancedIds[i] \in NormalIds }
        IN /\ \A f \in FailureIds : Count(BalancedIds, f) = 1
           /\ \A i \in DOMAIN BalancedIds :
                  BalancedIds[i] \in FailureIds \cup NormalIds
           /\ Cardinality(added) = F \div 2
           /\ Len(BalancedIds) = F + F \div 2
           /\ 2 * Cardinality(added) <= F
           /\ \A i \in added :
                  df_balanced.rows[i].failure_type = CodeOf(le, "None")
           /\ \A i \in DOMAIN BalancedIds \ added :
                  df_balanced.rows[i].failure_type # CodeOf(le, "None")

\* four failure rows or more, and one normal row copied twice
C18_Witness ==
    /\ Balanced
    /\ Cardinality(FailureIds) >= 4
    /\ \E x \in NormalIds : Count(BalancedIds, x) = 2
    /\ Cardinality(NormalIds) >= 2

\* C19: once the encoder is fitted its vocabulary contains "None", and no
\* run is ended by the lookup of the code of "None" in the Balance step.
C19_NormalClassAlwaysEncoded ==
    /\ "Encode" \in Range(trace) => "None" \in Range(le)
    /\ ~(tpc = "crashed" /\ trace[Len(trace)] = "Balance")


\* lines 987-990 read off the csv header: every column but vehicle_id,
\* timestamp and failure_type, then the two derived columns
FittedColumns ==
    SelectSeq(csv.columns,
              LAMBDA c : c \notin {"vehicle_id", "timestamp", "failure_type"})
        \o << "temp_pressure_ratio", "total_brake_wear" >>

\* what the serving process unpickled
Loaded(filename) == cache.value.src[filename]

\* C20: in a training run the persisted column list, the columns of the
\* balanced matrix, and the columns the scaler and the model are fitted on
\* are one sequence: the csv columns without vehicle_id, timestamp and
\* failure_type, then temp_pressure_ratio and total_brake_wear.  At serving
\* time the frame handed to the scaler has the columns of the list loaded
\* from training_columns.pkl, in its order, and that is the sequence the
\* unpickled scaler and model were fitted on.
C20_ColumnOrderAgrees ==
    /\ "Encode" \in Range(trace) => t_training_columns = FittedColumns
    /\ Balanced => df_balanced.columns = t_training_columns
    /\ t_scaler.fitted => t_scaler.columns = t_training_columns
    /\ final_model.fitted => final_model.columns = t_training_columns
    /\ \A f \in {"model.pkl", "scaler.pkl", "training_columns.pkl"} \cap saved :
           pkl[f].columns = FittedColumns
    /\ invoked # {} =>
           /\ scaler_input.columns = training_columns.list
           /\ training_columns.list = Loaded("training_columns.pkl").columns
           /\ \A f \in {"model.pkl", "scaler.pkl"} :
                  scaler_input.columns = Loaded(f).columns

\* C21: what a serving process holds after load_model_assets was unpickled
\* from four files written by one training run, and that run had written
\* all four; the four objects are all there or all None.
C21_ArtifactsFromOneRun ==
    cache.set =>
        /\ \A f \in ArtifactFiles : \A g \in ArtifactFiles :
               Loaded(f).run = Loaded(g).run
        /\ \A f \in ArtifactFiles :
               Loaded(f).run = run_id => saved = ArtifactFiles
        /\ \/ /\ cache.value.model = PyNone
              /\ cache.value.scaler = PyNone
              /\ cache.value.encoder = PyNone
              /\ cache.value.columns = NoColumns
           \/ /\ cache.value.model # PyNone
              /\ cache.value.scaler # PyNone
              /\ cache.value.encoder # PyNone
              /\ cache.value.columns # NoColumns


(***************************************************************************)
(* Claims about the session.                                               *)
(***************************************************************************)

\* C22: whenever the Detailed Analysis page shows a diagnosis, a user is
\* signed in and the stored diagnosis_input was recorded while that user
\* was signed in.
C22_DiagnosisOnlyForItsUser ==
    Shown => current_user # PyNone /\ diagnosis_by = current_user

\* C24: a click on a Back to Dashboard button of the Detailed Analysis
\* page, under the diagnosis or under the warning, leaves "Dashboard" in
\* session_state["page"], the page the next script run draws.
C24_BackLeadsToDashboard ==
    [][(BackToDashboard \/ BackToDashboardEmpty) => page' = "Dashboard"]_vars


\* C23: a sign-up that reaches create_user with a username that has an
\* account gets "Username exists" and leaves the users store as it was; no
\* sign-up, accepted or refused, changes or removes an account that exists.
C23_DuplicateSignUpChangesNothing ==
    /\ [][signup'.called /\ signup'.username \in DOMAIN users =>
              signup'.msg = "Username exists" /\ users' = users]_vars
    /\ [][\A u \in DOMAIN users :
              u \in DOMAIN users' /\ users'[u] = users[u]]_vars

\* ann, who has a car, and bob have accounts, and a sign-up as ann with
\* another password has been refused
C23_Witness ==
    /\ signup.called
    /\ signup.msg = "Username exists"
    /\ signup.username = "ann"
    /\ users["ann"].pw_hash # hash_password(signup.password)
    /\ users["ann"].cars # << >>
    /\ "bob" \in DOMAIN users

====
